---- MODULE Spec2Model ----
(***************************************************************************)
(* Drive-time matrix service (app.py): the CSV -> SQLite ingestion         *)
(* (build_sqlite_from_csv), the access gate (get_api_key, rate_limit_ok,   *)
(* require_api_key) and the query endpoints that read the dtm table.       *)
(*                                                                         *)
(* Three specifications share the variables:                               *)
(*   SpecBuild  process starts running build_sqlite_from_csv on one CSV    *)
(*   Spec       the serving phase, one request handled at a time           *)
(*   SpecConc   the access gate under interleaved request threads          *)
(***************************************************************************)
EXTENDS Integers, Sequences, FiniteSets, TLC

VARIABLES
    \* ---- the store and its ingestion (build_sqlite_from_csv)
    csv,          \* the raw file: the sequence of rows csv.DictReader yields
    db_nonempty,  \* os.path.exists(db_path) and os.path.getsize(db_path) > 0
    dtm,          \* committed rows of table dtm: a set of <<from, to, time_min, distance_dm>>
    indexes,      \* names of the indexes created on dtm
    batch,        \* the local list `batch`
    pos,          \* position of the reader in csv (next row to yield)
    n,            \* the local counter `n`
    bpc,          \* where the process is: "start", "reading", "returned", "stopped"
    path,         \* how the current call went: "none", "built", "skipped"
    runs,         \* number of process starts so far
    \* ---- the access gate
    VALID_KEYS,          \* the set parsed from API_KEYS
    RATE_LIMIT_PER_MIN,  \* the configured per-minute budget
    rl_window,           \* _rl_window: key -> <<minute, count>>, a partial map
    now,                 \* int(time.time() // 60)
    \* ---- serving, one request at a time
    resp,         \* the last request handled and its response
    seen,         \* per credential: calls of rate_limit_ok in the minute `now`
    \* ---- serving, interleaved threads
    pc,           \* per thread: position in require_api_key / rate_limit_ok
    tkey,         \* per thread: the local `key`
    loc,          \* per thread: the locals now_min, win, cnt of rate_limit_ok
    result,       \* per thread: the status the wrapper returned (0: none yet)
    admitted      \* per credential and minute: calls of rate_limit_ok that returned True

buildVars == <<csv, db_nonempty, dtm, indexes, batch, pos, n, bpc, path, runs>>
gateVars  == <<VALID_KEYS, RATE_LIMIT_PER_MIN, rl_window, now>>
seqVars   == <<resp, seen>>
concVars  == <<pc, tkey, loc, result, admitted>>
vars      == <<buildVars, gateVars, seqVars, concVars>>

(***************************************************************************)
(* Bounds of the model.                                                    *)
(***************************************************************************)
MaxRows   == 3   \* longest raw file
BatchSize == 4   \* the flush threshold of `len(batch) >= 20000`, scaled down
MaxRuns   == 2   \* process starts
MaxBudget == 2   \* largest configured RATE_LIMIT_PER_MIN
MaxMinute == 1   \* epoch minutes 0..MaxMinute
NThreads  == 2   \* concurrent request threads

(***************************************************************************)
(* Strings are sequences of one-character strings.                         *)
(***************************************************************************)
RECURSIVE lstrip(_)
lstrip(s) == IF s # <<>> /\ Head(s) = " " THEN lstrip(Tail(s)) ELSE s

RECURSIVE rstrip(_)
rstrip(s) == IF s # <<>> /\ s[Len(s)] = " " THEN rstrip(SubSeq(s, 1, Len(s) - 1)) ELSE s

\* str.strip()
strip(s) == rstrip(lstrip(s))

\* str.zfill(width), for strings without a sign prefix
RECURSIVE zfill(_, _)
zfill(s, width) == IF Len(s) >= width THEN s ELSE zfill(<<"0">> \o s, width)

\* int(round(num / den)) for an integer-valued float num and den > 0:
\* Python 3 rounds halves to the even neighbour.
PyRound(num, den) ==
    LET q == num \div den
        r == num % den
    IN  IF 2 * r < den THEN q
        ELSE IF 2 * r > den THEN q + 1
        ELSE IF q % 2 = 0 THEN q ELSE q + 1

(***************************************************************************)
(* Raw rows.  A field is absent (None: the column or the cell is missing)  *)
(* or a text; a numeric text is kept as the integer it denotes.            *)
(***************************************************************************)
None      == [kind |-> "none", s |-> <<>>, v |-> 0]
Text(s)   == [kind |-> "str",  s |-> s,    v |-> 0]
Num(v)    == [kind |-> "num",  s |-> <<>>, v |-> v]
NotANum   == [kind |-> "str",  s |-> <<"x">>, v |-> 0]   \* float() raises ValueError
NaN       == [kind |-> "nan",  s |-> <<>>, v |-> 0]      \* float() accepts, int(round()) raises

Row(f, t, dur, dist) == [pc4_from |-> f, pc4_to |-> t, duration_s |-> dur, distance_m |-> dist]

C21    == Text(<<"2", "1">>)
C0021  == Text(<<"0", "0", "2", "1">>)
C21sp  == Text(<<" ", "2", "1", " ">>)
C3011  == Text(<<"3", "0", "1", "1">>)

RowAB    == Row(C21,   C3011, Num(900), Num(12500))   \* 15 min, 125 dm
RowBA    == Row(C3011, C0021, Num(930), Num(12450))   \* reverse direction, other values
RowAB2   == Row(C21sp, C3011, Num(870), Num(12550))   \* same pair again, halves
RowAA    == Row(C0021, C21,   Num(60),  Num(0))       \* self-pair after padding

RawRows ==
    { RowAB, RowBA, RowAB2, RowAA,
      Row(C21,   C3011, NotANum,  Num(100)),     \* duration not numeric
      Row(C3011, C21,   Num(120), None),         \* distance absent
      Row(C21,   None,  Num(120), Num(100)),     \* code column missing
      Row(C3011, C21,   NaN,      Num(100)) }    \* nan: parsed, cannot be rounded

RECURSIVE SeqsUpTo(_, _)
SeqsUpTo(S, k) ==
    IF k = 0 THEN {<<>>}
    ELSE LET shorter == SeqsUpTo(S, k - 1)
         IN  shorter \cup {Append(q, x) : q \in {y \in shorter : Len(y) = k - 1}, x \in S}

(***************************************************************************)
(* build_sqlite_from_csv: one row of the loop.                             *)
(***************************************************************************)
\* Variant of Raises: an absent distance is read as 0 instead of raising.
Raises_DistanceOptional(row) ==
    \/ row.pc4_from.kind # "str"
    \/ row.pc4_to.kind # "str"
    \/ row.duration_s.kind # "num"
    \/ row.distance_m.kind \notin {"num", "none"}

\* A field access followed by .strip() or float(): raises on None.
Raises(row) ==
    \/ row.pc4_from.kind # "str"            \* None.strip(): AttributeError
    \/ row.pc4_to.kind # "str"
    \/ row.duration_s.kind \notin {"num", "nan"}   \* float(): ValueError / TypeError
    \/ row.distance_m.kind \notin {"num", "nan"}
    \/ row.duration_s.kind = "nan"          \* int(round(nan)): ValueError
    \/ row.distance_m.kind = "nan"

\* Variant of RowEdges: the reverse tuple is not appended.
RowEdges_ForwardOnly(row) ==
    IF Raises(row) THEN <<>>
    ELSE LET A == zfill(strip(row.pc4_from.s), 4)
             B == zfill(strip(row.pc4_to.s), 4)
         IN  << <<A, B, PyRound(row.duration_s.v, 60), PyRound(row.distance_m.v, 100)>> >>

\* The two tuples one row appends to `batch`, or none when the try block raises.
RowEdges(row) ==
    IF Raises(row) THEN <<>>
    ELSE LET A == zfill(strip(row.pc4_from.s), 4)
             B == zfill(strip(row.pc4_to.s), 4)
             time_min == PyRound(row.duration_s.v, 60)
             distance_dm == PyRound(row.distance_m.v, 100)
         IN  << <<A, B, time_min, distance_dm>>, <<B, A, time_min, distance_dm>> >>

\* Variant of InsertOrReplace: INSERT OR IGNORE, the stored row stays.
InsertOrIgnore(table, r) ==
    IF \E x \in table : x[1] = r[1] /\ x[2] = r[2] THEN table ELSE table \cup {r}

\* INSERT OR REPLACE INTO dtm VALUES (?,?,?,?) under PRIMARY KEY (pc4_from, pc4_to)
InsertOrReplace(table, r) ==
    {x \in table : ~(x[1] = r[1] /\ x[2] = r[2])} \cup {r}

\* cur.executemany(..., batch); conn.commit()
RECURSIVE ExecuteMany(_, _)
ExecuteMany(table, rows) ==
    IF rows = <<>> THEN table
    ELSE ExecuteMany(InsertOrReplace(table, Head(rows)), Tail(rows))

\* Everything the rows of a file append to `batch`, in order.
RECURSIVE csv_edges(_)
csv_edges(rows) == IF rows = <<>> THEN <<>> ELSE RowEdges(Head(rows)) \o csv_edges(Tail(rows))

(***************************************************************************)
(* Idle values of the variables a specification does not use.              *)
(***************************************************************************)
NoWindows == [k \in {} |-> <<0, 0>>]
NoResp    == [endpoint |-> "none", key |-> "", gate |-> "none", nth |-> 0, status |-> 0,
              kind |-> "none", origin |-> <<>>, rows |-> <<>>]
Threads   == 1..NThreads
NoLocals  == [now_min |-> 0, win |-> 0, cnt |-> 0]

GateOff ==
    /\ VALID_KEYS = {}
    /\ RATE_LIMIT_PER_MIN = 0
    /\ rl_window = NoWindows
    /\ now = 0

SeqOff ==
    /\ resp = NoResp
    /\ seen = NoWindows

ConcOff ==
    /\ pc = [t \in Threads |-> "idle"]
    /\ tkey = [t \in Threads |-> ""]
    /\ loc = [t \in Threads |-> NoLocals]
    /\ result = [t \in Threads |-> 0]
    /\ admitted = NoWindows

(***************************************************************************)
(* SpecBuild: process starts, each running build_sqlite_from_csv.          *)
(***************************************************************************)
AllIndexes == {"idx_from", "idx_from_time"}

InitBuild ==
    /\ csv \in SeqsUpTo(RawRows, MaxRows)
    /\ db_nonempty = FALSE
    /\ dtm = {}
    /\ indexes = {}
    /\ batch = <<>>
    /\ pos = 1
    /\ n = 0
    /\ bpc = "start"
    /\ path = "none"
    /\ runs = 1
    /\ GateOff /\ SeqOff /\ ConcOff

\* Lines 97-129: the short-circuit, or connect, CREATE TABLE and open the reader.
\* CREATE TABLE is committed at once, which leaves a store file of non-zero size.
BuildStart ==
    /\ bpc = "start"
    /\ IF db_nonempty
       THEN /\ path' = "skipped"
            /\ bpc' = "returned"
            /\ UNCHANGED <<db_nonempty, batch, pos, n>>
       ELSE /\ path' = "built"
            /\ bpc' = "reading"
            /\ db_nonempty' = TRUE
            /\ batch' = <<>>
            /\ pos' = 1
            /\ n' = 0
    /\ UNCHANGED <<csv, dtm, indexes, runs, gateVars, seqVars, concVars>>

\* Lines 131-156: one iteration of `for row in reader`.
ReadRow ==
    /\ bpc = "reading"
    /\ pos <= Len(csv)
    /\ pos' = pos + 1
    /\ LET edges == RowEdges(csv[pos])
           grown == batch \o edges
       IN  IF edges = <<>>
           THEN UNCHANGED <<batch, n, dtm>>            \* except Exception: continue
           ELSE /\ n' = n + 1
                /\ IF Len(grown) >= BatchSize
                   THEN /\ dtm' = ExecuteMany(dtm, grown)
                        /\ batch' = <<>>
                   ELSE /\ batch' = grown
                        /\ UNCHANGED dtm
    /\ UNCHANGED <<csv, db_nonempty, indexes, bpc, path, runs, gateVars, seqVars, concVars>>

\* Lines 158-171: the last batch, the indexes, VACUUM, close, return.
Finish ==
    /\ bpc = "reading"
    /\ pos > Len(csv)
    /\ dtm' = IF batch # <<>> THEN ExecuteMany(dtm, batch) ELSE dtm
    /\ batch' = <<>>
    /\ indexes' = AllIndexes
    /\ bpc' = "returned"
    /\ UNCHANGED <<csv, db_nonempty, pos, n, path, runs, gateVars, seqVars, concVars>>

\* The process is stopped while the loop runs: what was committed stays in the
\* store file, the locals are gone.
Stop ==
    /\ bpc = "reading"
    /\ bpc' = "stopped"
    /\ batch' = <<>>
    /\ pos' = 1
    /\ n' = 0
    /\ UNCHANGED <<csv, db_nonempty, dtm, indexes, path, runs, gateVars, seqVars, concVars>>

\* Lines 193-195: the next process start calls build_sqlite_from_csv again.
Restart ==
    /\ bpc \in {"returned", "stopped"}
    /\ runs < MaxRuns
    /\ runs' = runs + 1
    /\ bpc' = "start"
    /\ path' = "none"
    /\ UNCHANGED <<csv, db_nonempty, dtm, indexes, batch, pos, n, gateVars, seqVars, concVars>>

NextBuild == BuildStart \/ ReadRow \/ Finish \/ Stop \/ Restart

SpecBuild == InitBuild /\ [][NextBuild]_vars

(***************************************************************************)
(* Properties of the ingestion, checked under SpecBuild.                   *)
(***************************************************************************)
Accepted(row) == RowEdges(row) # <<>>

\* The two codes a record mentions, as a set: the pair in either direction.
PairOf(row) == {RowEdges(row)[1][1], RowEdges(row)[1][2]}

\* This call read the whole file, committed it and returned.
BuiltAndReturned == bpc = "returned" /\ path = "built"

\* The store the rows give when each accepted record is written at once, in order.
RECURSIVE StoreOf(_)
StoreOf(rows) ==
    IF rows = <<>> THEN {}
    ELSE LET front == SubSeq(rows, 1, Len(rows) - 1)
             e == RowEdges(rows[Len(rows)])
         IN  IF e = <<>> THEN StoreOf(front)
             ELSE InsertOrReplace(InsertOrReplace(StoreOf(front), e[1]), e[2])

\* Malformed as the specification says it: a code column missing, or duration or
\* distance absent or not numeric.
Malformed(row) ==
    \/ row.pc4_from.kind = "none"
    \/ row.pc4_to.kind = "none"
    \/ row.duration_s.kind \in {"none", "str"}
    \/ row.distance_m.kind \in {"none", "str"}

WellFormed(row) == ~Malformed(row)

\* C3: the store is symmetric: with every stored edge (A,B,t,d) it holds (B,A,t,d).
\* It holds of every committed state of the store, so of the store a call leaves.
C3_Symmetric ==
    \A e \in dtm : <<e[2], e[1], e[3], e[4]>> \in dtm

\* A finished build of three accepted records, the first two flushed as one batch,
\* with both directions of one pair carrying different values in the file.
C3_Witness ==
    /\ BuiltAndReturned
    /\ Len(csv) = 3
    /\ \A i \in 1..3 : Accepted(csv[i])
    /\ \E i, j \in 1..3 :
          /\ RowEdges(csv[i])[1][1] = RowEdges(csv[j])[1][2]
          /\ RowEdges(csv[i])[1][2] = RowEdges(csv[j])[1][1]
          /\ RowEdges(csv[i])[1][1] # RowEdges(csv[i])[1][2]
          /\ RowEdges(csv[i])[1][3] # RowEdges(csv[j])[1][3]
    /\ \E e \in dtm : e[1] # e[2]

\* C7: at most one row per ordered pair (from, to); and after a call that ingested
\* the file, the rows of (A,B) and (B,A) carry the quantized values of the last
\* accepted record that mentions A and B, in either direction.
C7_LastWriteWins ==
    /\ \A x, y \in dtm : (x[1] = y[1] /\ x[2] = y[2]) => x = y
    /\ BuiltAndReturned =>
          \A i \in 1..Len(csv) :
              ( /\ Accepted(csv[i])
                /\ \A j \in (i + 1)..Len(csv) :
                      Accepted(csv[j]) => PairOf(csv[j]) # PairOf(csv[i]) )
              => /\ RowEdges(csv[i])[1] \in dtm
                 /\ RowEdges(csv[i])[2] \in dtm

\* The first and the third record mention the same pair with different values, in
\* opposite directions, and a batch was committed between them.
C7_Witness ==
    /\ BuiltAndReturned
    /\ Len(csv) = 3
    /\ \A i \in 1..3 : Accepted(csv[i])
    /\ PairOf(csv[1]) = PairOf(csv[3])
    /\ RowEdges(csv[1])[1][1] = RowEdges(csv[3])[1][2]
    /\ RowEdges(csv[1])[1][1] # RowEdges(csv[1])[1][2]
    /\ RowEdges(csv[1])[1][3] # RowEdges(csv[3])[1][3]
    /\ RowEdges(csv[3])[1] \in dtm
    /\ Cardinality(dtm) >= 2

\* C8: malformed records are skipped and contribute no edge: the store a call
\* builds is the store of the file with its malformed records removed.
C8_MalformedSkipped ==
    BuiltAndReturned => dtm = StoreOf(SelectSeq(csv, WellFormed))

\* A malformed record stands between two accepted ones, and the build went on.
C8_Witness ==
    /\ BuiltAndReturned
    /\ Len(csv) = 3
    /\ Accepted(csv[1]) /\ Malformed(csv[2]) /\ Accepted(csv[3])
    /\ PairOf(csv[1]) # PairOf(csv[3])
    /\ RowEdges(csv[3])[1] \in dtm
    /\ n = 2

\* C9: whenever a call returns, the store holds the full matrix of the raw file.
C9_FullAfterReturn ==
    bpc = "returned" => dtm = StoreOf(csv)

(***************************************************************************)
(* The access gate: get_api_key, rate_limit_ok, require_api_key.           *)
(***************************************************************************)
\* A request's credential-bearing parts: the Authorization header (its scheme in
\* lower case and what follows the first space), ?t= and ?key=.
Cred(scheme, token, t, key) == [scheme |-> scheme, token |-> token, t |-> t, key |-> key]

CredShapes ==
    { Cred("", "", "", ""),                       \* nothing presented
      Cred("bearer", "demo_290361", "", ""),      \* header
      Cred("bearer", "", "k2", ""),               \* empty bearer token hides ?t=
      Cred("", "", "", "k2"),                     \* legacy ?key=
      Cred("basic", "k2", "bad", "k2") }          \* other scheme; ?t= wins over ?key=

\* Lines 34-48.
get_api_key(c) ==
    IF c.scheme = "bearer" THEN c.token
    ELSE IF c.t # "" THEN c.t
    ELSE c.key

\* Line 54: _rl_window.get(key, (now_min, 0))
rl_get(w, key, now_min) == IF key \in DOMAIN w THEN w[key] ELSE <<now_min, 0>>

\* Variant of rl_roll: the window is never reset.
rl_roll_never(wc, now_min) == wc

\* Lines 55-56: reset when the stored minute is not the current one.
rl_roll(wc, now_min) == IF wc[1] # now_min THEN <<now_min, 0>> ELSE wc

\* Line 58: _rl_window[key] = (win, cnt)
rl_put(w, key, wc) == [k \in DOMAIN w \cup {key} |-> IF k = key THEN wc ELSE w[k]]

\* Lines 50-59, run without interruption: the verdict and the map it leaves.
rate_limit_ok(w, key, now_min) ==
    IF RATE_LIMIT_PER_MIN <= 0 THEN [ok |-> TRUE, w |-> w]
    ELSE LET wc == rl_roll(rl_get(w, key, now_min), now_min)
             cnt == wc[2] + 1
         IN  [ok |-> cnt <= RATE_LIMIT_PER_MIN, w |-> rl_put(w, key, <<wc[1], cnt>>)]

GateResult(gate, status, w, called) == [gate |-> gate, status |-> status, w |-> w, called |-> called]

\* Variant of require_api_key: the missing credential is reported before the
\* missing configuration.
require_api_key_KeyFirst(c) ==
    LET key == get_api_key(c)
        rl == rate_limit_ok(rl_window, key, now)
    IN  IF key = "" THEN GateResult("unauthorized", 401, rl_window, FALSE)
        ELSE IF VALID_KEYS = {} THEN GateResult("unavailable", 503, rl_window, FALSE)
        ELSE IF key \notin VALID_KEYS THEN GateResult("forbidden", 403, rl_window, FALSE)
        ELSE IF ~rl.ok THEN GateResult("limited", 429, rl.w, RATE_LIMIT_PER_MIN > 0)
        ELSE GateResult("passed", 200, rl.w, RATE_LIMIT_PER_MIN > 0)

\* Variant of require_api_key: the budget is charged before the key is validated.
require_api_key_LimitFirst(c) ==
    LET key == get_api_key(c)
        rl == rate_limit_ok(rl_window, key, now)
    IN  IF VALID_KEYS = {} THEN GateResult("unavailable", 503, rl_window, FALSE)
        ELSE IF key = "" THEN GateResult("unauthorized", 401, rl_window, FALSE)
        ELSE IF ~rl.ok THEN GateResult("limited", 429, rl.w, RATE_LIMIT_PER_MIN > 0)
        ELSE IF key \notin VALID_KEYS THEN GateResult("forbidden", 403, rl.w, RATE_LIMIT_PER_MIN > 0)
        ELSE GateResult("passed", 200, rl.w, RATE_LIMIT_PER_MIN > 0)

\* Lines 61-77, the wrapper up to the call of fn: which gate closed (or "passed"),
\* the status it returns, the rate-window map it leaves, and whether
\* rate_limit_ok counted the request (it was called with a budget above zero).
require_api_key(c) ==
    LET key == get_api_key(c)
        rl == rate_limit_ok(rl_window, key, now)
    IN  IF VALID_KEYS = {} THEN GateResult("unavailable", 503, rl_window, FALSE)
        ELSE IF key = "" THEN GateResult("unauthorized", 401, rl_window, FALSE)
        ELSE IF key \notin VALID_KEYS THEN GateResult("forbidden", 403, rl_window, FALSE)
        ELSE IF ~rl.ok THEN GateResult("limited", 429, rl.w, RATE_LIMIT_PER_MIN > 0)
        ELSE GateResult("passed", 200, rl.w, RATE_LIMIT_PER_MIN > 0)

(***************************************************************************)
(* The query endpoints.                                                    *)
(***************************************************************************)
\* Byte order of the characters that occur, as SQLite's BINARY collation has it.
Ord(ch) ==
    CASE ch = " " -> 0 [] ch = "0" -> 1 [] ch = "1" -> 2 [] ch = "2" -> 3
      [] ch = "3" -> 4 [] ch = "9" -> 10 [] OTHER -> 11

RECURSIVE LexLess(_, _)
LexLess(a, b) ==
    IF b = <<>> THEN FALSE
    ELSE IF a = <<>> THEN TRUE
    ELSE IF Head(a) # Head(b) THEN Ord(Head(a)) < Ord(Head(b))
    ELSE LexLess(Tail(a), Tail(b))

\* ORDER BY a text column: the rows of S by their first component.
RECURSIVE OrderBy(_)
OrderBy(S) ==
    IF S = {} THEN <<>>
    ELSE LET m == CHOOSE x \in S : \A y \in S \ {x} : ~LexLess(y[1], x[1])
         IN  <<m>> \o OrderBy(S \ {m})

\* SELECT pc4_to AS dest, time_min, distance_dm FROM dtm WHERE pc4_from = ?
\* [AND time_min <= ?] ORDER BY pc4_to
SelectRow(origin, max_min) ==
    OrderBy({ <<e[2], e[3], e[4]>> : e \in
              {x \in dtm : x[1] = origin /\ (max_min.kind = "num" => x[3] <= max_min.v)} })

\* SELECT DISTINCT pc4_from AS o FROM dtm ORDER BY o
SelectOrigins == OrderBy({ <<e[1]>> : e \in dtm })

Body(status, kind, origin, rows) ==
    [status |-> status, kind |-> kind, origin |-> origin, rows |-> rows]

\* request.args.get(name, ""): an absent parameter reads as the empty string
ArgOrEmpty(a) == IF a.kind = "none" THEN <<>> ELSE a.s

\* Lines 220-223.
me(key) ==
    Body(200, "profile", <<>>, << IF key = "demo_290361" THEN "demo" ELSE "pro" >>)

\* Lines 227-263.
api_v1_dtm(origin_arg, max_min) ==
    LET stripped == strip(ArgOrEmpty(origin_arg))
        origin == zfill(stripped, 4)
    IN  IF stripped = <<>> THEN Body(400, "error", <<>>, <<>>)
        ELSE Body(200, "row", origin, SelectRow(origin, max_min))

\* Lines 267-289.  distance_km keeps one decimal: it is carried in tenths of a km.
api_v1_route(origin_arg, dest_arg) ==
    LET origin == zfill(strip(ArgOrEmpty(origin_arg)), 4)
        dest == zfill(strip(ArgOrEmpty(dest_arg)), 4)
        found == {e \in dtm : e[1] = origin /\ e[2] = dest}
    IN  IF origin = <<>> \/ dest = <<>> THEN Body(400, "error", <<>>, <<>>)
        ELSE IF found = {} THEN Body(404, "error", origin, <<>>)
        ELSE Body(200, "pair", origin, OrderBy({ <<e[2], e[3], e[4]>> : e \in found }))

\* Lines 293-296.
api_v1_origins == Body(200, "origins", <<>>, SelectOrigins)

\* Lines 300-301.
nearest_location == Body(501, "error", <<>>, <<>>)

\* Lines 308-343.  distance_km is int(round(distance_dm / 10.0)).
get_dtm(origin_arg, max_min) ==
    LET origin == zfill(strip(ArgOrEmpty(origin_arg)), 4)
        rows == SelectRow(origin, max_min)
    IN  IF ArgOrEmpty(origin_arg) = <<>> THEN Body(400, "error", <<>>, <<>>)
        ELSE Body(200, "row", origin,
                  [i \in 1..Len(rows) |-> <<rows[i][1], rows[i][2], PyRound(rows[i][3], 10)>>])

\* Lines 346-349.
get_origins == Body(200, "origins", <<>>, SelectOrigins)

(***************************************************************************)
(* Spec: the serving phase, one request handled at a time.                 *)
(***************************************************************************)
KeySets == { {}, {"demo_290361", "k2"} }

\* The files whose finished builds are served.
ServedFiles == { <<RowAB>>, <<RowAB, RowAA, RowBA>> }

OriginArgs == { None, C21, Text(<<"9", "9", "9", "9">>) }
DestArgs   == { None, C3011 }
MaxMinArgs == { None, Num(15) }

\* Largest count a rate window is let to reach.
CounterCap == MaxBudget + 1

NoCalls == [k \in {} |-> 0]

Init ==
    /\ csv \in ServedFiles
    /\ db_nonempty = TRUE
    /\ dtm = ExecuteMany({}, csv_edges(csv))
    /\ indexes = AllIndexes
    /\ batch = <<>>
    /\ pos = Len(csv) + 1
    /\ n = Len(SelectSeq(csv, LAMBDA r : RowEdges(r) # <<>>))
    /\ bpc = "returned"
    /\ path = "built"
    /\ runs = 1
    /\ VALID_KEYS \in KeySets
    /\ RATE_LIMIT_PER_MIN \in 0..MaxBudget
    /\ rl_window = NoWindows
    /\ now = 0
    /\ resp = NoResp
    /\ seen = NoCalls
    /\ ConcOff

\* The clock reaches the next epoch minute.
Tick ==
    /\ now < MaxMinute
    /\ now' = now + 1
    /\ seen' = NoCalls
    /\ UNCHANGED <<VALID_KEYS, RATE_LIMIT_PER_MIN, rl_window, resp, buildVars, concVars>>

Response(endpoint, key, gate, nth, body) ==
    [endpoint |-> endpoint, key |-> key, gate |-> gate, nth |-> nth] @@ body

\* A route decorated with @require_api_key: the wrapper, then fn when it passes.
\* body is what fn returns for this request.  The value holds the rate-window
\* map, the call counts of the minute and the response the request leaves.
Wrapped(endpoint, c, body) ==
    LET g == require_api_key(c)
        key == get_api_key(c)
        nth == IF g.called
               THEN (IF key \in DOMAIN seen THEN seen[key] ELSE 0) + 1
               ELSE 0
    IN  [w    |-> g.w,
         seen |-> IF g.called
                  THEN [k \in DOMAIN seen \cup {key} |-> IF k = key THEN nth ELSE seen[k]]
                  ELSE seen,
         resp |-> IF g.gate = "passed"
                  THEN Response(endpoint, key, g.gate, nth, body)
                  ELSE Response(endpoint, key, g.gate, nth,
                                Body(g.status, "error", <<>>, <<>>))]

\* No rate window counts beyond the cap of the model.
WithinCap(w) == \A k \in DOMAIN w : w[k][2] <= CounterCap

\* A route without the decorator: fn runs for every request, here one that
\* carries no credential.
Unwrapped(endpoint, body) == Response(endpoint, "", "ungated", 0, body)

Me ==
    \E c \in CredShapes :
      \E call \in {Wrapped("me", c, me(get_api_key(c)))} :
        /\ WithinCap(call.w)
        /\ rl_window' = call.w
        /\ seen' = call.seen
        /\ resp' = call.resp
        /\ UNCHANGED <<VALID_KEYS, RATE_LIMIT_PER_MIN, now, buildVars, concVars>>

ApiV1Dtm ==
    \E c \in CredShapes, o \in OriginArgs, m \in MaxMinArgs :
      \E call \in {Wrapped("api_v1_dtm", c, api_v1_dtm(o, m))} :
        /\ WithinCap(call.w)
        /\ rl_window' = call.w
        /\ seen' = call.seen
        /\ resp' = call.resp
        /\ UNCHANGED <<VALID_KEYS, RATE_LIMIT_PER_MIN, now, buildVars, concVars>>

ApiV1Route ==
    \E c \in CredShapes, o \in OriginArgs, d \in DestArgs :
      \E call \in {Wrapped("api_v1_route", c, api_v1_route(o, d))} :
        /\ WithinCap(call.w)
        /\ rl_window' = call.w
        /\ seen' = call.seen
        /\ resp' = call.resp
        /\ UNCHANGED <<VALID_KEYS, RATE_LIMIT_PER_MIN, now, buildVars, concVars>>

ApiV1Origins ==
    \E c \in CredShapes :
      \E call \in {Wrapped("api_v1_origins", c, api_v1_origins)} :
        /\ WithinCap(call.w)
        /\ rl_window' = call.w
        /\ seen' = call.seen
        /\ resp' = call.resp
        /\ UNCHANGED <<VALID_KEYS, RATE_LIMIT_PER_MIN, now, buildVars, concVars>>

NearestLocation ==
    \E c \in CredShapes :
      \E call \in {Wrapped("nearest_location", c, nearest_location)} :
        /\ WithinCap(call.w)
        /\ rl_window' = call.w
        /\ seen' = call.seen
        /\ resp' = call.resp
        /\ UNCHANGED <<VALID_KEYS, RATE_LIMIT_PER_MIN, now, buildVars, concVars>>

GetDtm ==
    \E o \in OriginArgs, m \in MaxMinArgs :
        /\ resp' = Unwrapped("get_dtm", get_dtm(o, m))
        /\ UNCHANGED <<gateVars, seen, buildVars, concVars>>

GetOrigins ==
    /\ resp' = Unwrapped("get_origins", get_origins)
    /\ UNCHANGED <<gateVars, seen, buildVars, concVars>>

Next ==
    \/ Tick
    \/ Me
    \/ ApiV1Dtm
    \/ ApiV1Route
    \/ ApiV1Origins
    \/ NearestLocation
    \/ GetDtm
    \/ GetOrigins

Spec == Init /\ [][Next]_vars

(***************************************************************************)
(* Properties of the serving phase, checked under Spec.                    *)
(***************************************************************************)
GatedEndpoints == {"me", "api_v1_dtm", "api_v1_route", "api_v1_origins", "nearest_location"}

\* C1: with budget N > 0, the nth call of rate_limit_ok for a credential within
\* one epoch minute is admitted when nth <= N and rejected when nth > N; nth
\* restarts at 1 with every new minute, so the first call of a later minute is
\* admitted whatever count the credential had reached.
C1_RateBoundary ==
    resp.nth > 0 =>
        /\ RATE_LIMIT_PER_MIN > 0
        /\ resp.gate = IF resp.nth <= RATE_LIMIT_PER_MIN THEN "passed" ELSE "limited"

\* In a later minute a credential's call N+1 has just been rejected, while its
\* calls of that minute up to N were admitted.
C1_Witness ==
    /\ now > 0
    /\ RATE_LIMIT_PER_MIN > 0
    /\ resp.gate = "limited"
    /\ resp.nth = RATE_LIMIT_PER_MIN + 1
    /\ rl_window[resp.key] = <<now, resp.nth>>

\* C4: a request to a decorated route gets one outcome, decided in this order:
\* 503 when no key is configured, else 401 when it presents no credential, else
\* 403 when the credential is not a valid key, else 429 when the credential's
\* call number in this minute is above a positive budget, else the handler runs.
C4_GateOrder ==
    resp.endpoint \in GatedEndpoints =>
        IF VALID_KEYS = {} THEN resp.gate = "unavailable" /\ resp.status = 503
        ELSE IF resp.key = "" THEN resp.gate = "unauthorized" /\ resp.status = 401
        ELSE IF resp.key \notin VALID_KEYS THEN resp.gate = "forbidden" /\ resp.status = 403
        ELSE IF RATE_LIMIT_PER_MIN > 0 /\ resp.nth > RATE_LIMIT_PER_MIN
             THEN resp.gate = "limited" /\ resp.status = 429
        ELSE resp.gate = "passed" /\ resp.status \in {200, 400, 404, 501}

\* No key is configured and the request presented a credential: 503, not 403.
C4_Witness ==
    /\ VALID_KEYS = {}
    /\ resp.endpoint \in GatedEndpoints
    /\ resp.key # ""
    /\ resp.status = 503

\* C5: matrix data (a row, a pair, the origins) is served only to a request that
\* presented a valid key and passed the rate limiter.
C5_DataBehindGate ==
    (resp.status = 200 /\ resp.kind \in {"row", "pair", "origins"})
        => (resp.gate = "passed" /\ resp.key \in VALID_KEYS)

\* C6: a row query whose zero-padded origin has no row in the matrix answers 404.
C6_UnknownOriginNotFound ==
    ( /\ resp.endpoint \in {"api_v1_dtm", "get_dtm"}
      /\ resp.gate \in {"passed", "ungated"}
      /\ resp.origin # <<>>
      /\ ~\E e \in dtm : e[1] = resp.origin )
    => resp.status = 404

\* C10: the rate-window map holds entries for valid keys only, and a step that
\* ends in a request rejected at key validation leaves the map as it was.
C10_ValidationLeavesWindows ==
    /\ [](DOMAIN rl_window \subseteq VALID_KEYS)
    /\ [][resp'.gate \in {"unavailable", "unauthorized", "forbidden"}
            => rl_window' = rl_window]_vars

\* A valid key has spent budget, and a request with an unknown credential has
\* just been refused without getting a window.
C10_Witness ==
    /\ resp.gate = "forbidden"
    /\ resp.key \notin DOMAIN rl_window
    /\ \E k \in DOMAIN rl_window : rl_window[k][2] = RATE_LIMIT_PER_MIN

(***************************************************************************)
(* SpecConc: require_api_key and rate_limit_ok run by request threads that *)
(* share _rl_window.  Nothing in the source orders the threads, so a       *)
(* thread may be preempted between any two statements of rate_limit_ok.    *)
(***************************************************************************)
InitConc ==
    /\ csv = <<RowAB>>
    /\ db_nonempty = TRUE
    /\ dtm = ExecuteMany({}, csv_edges(csv))
    /\ indexes = AllIndexes
    /\ batch = <<>>
    /\ pos = Len(csv) + 1
    /\ n = 1
    /\ bpc = "returned"
    /\ path = "built"
    /\ runs = 1
    /\ VALID_KEYS \in KeySets
    /\ RATE_LIMIT_PER_MIN \in 0..MaxBudget
    /\ rl_window = NoWindows
    /\ now = 0
    /\ SeqOff
    /\ ConcOff

\* Lines 63-71: a request arrives at a decorated route; the key is validated.
Arrive(t) ==
    /\ pc[t] = "idle"
    /\ \E c \in CredShapes :
          LET key == get_api_key(c)
          IN  /\ tkey' = [tkey EXCEPT ![t] = key]
              /\ IF VALID_KEYS = {}
                 THEN pc' = [pc EXCEPT ![t] = "done"] /\ result' = [result EXCEPT ![t] = 503]
                 ELSE IF key = ""
                 THEN pc' = [pc EXCEPT ![t] = "done"] /\ result' = [result EXCEPT ![t] = 401]
                 ELSE IF key \notin VALID_KEYS
                 THEN pc' = [pc EXCEPT ![t] = "done"] /\ result' = [result EXCEPT ![t] = 403]
                 ELSE pc' = [pc EXCEPT ![t] = "rl_enter"] /\ UNCHANGED result
    /\ UNCHANGED <<loc, admitted, gateVars, seqVars, buildVars>>

\* Lines 51-53: the disabled limiter returns True; otherwise the clock is read.
RlEnter(t) ==
    /\ pc[t] = "rl_enter"
    /\ IF RATE_LIMIT_PER_MIN <= 0
       THEN /\ pc' = [pc EXCEPT ![t] = "done"]
            /\ result' = [result EXCEPT ![t] = 200]
            /\ UNCHANGED loc
       ELSE /\ pc' = [pc EXCEPT ![t] = "rl_get"]
            /\ loc' = [loc EXCEPT ![t].now_min = now]
            /\ UNCHANGED result
    /\ UNCHANGED <<tkey, admitted, gateVars, seqVars, buildVars>>

\* Line 54: win, cnt = _rl_window.get(key, (now_min, 0))
RlGet(t) ==
    /\ pc[t] = "rl_get"
    /\ LET wc == rl_get(rl_window, tkey[t], loc[t].now_min)
       IN  loc' = [loc EXCEPT ![t].win = wc[1], ![t].cnt = wc[2]]
    /\ pc' = [pc EXCEPT ![t] = "rl_put"]
    /\ UNCHANGED <<tkey, result, admitted, gateVars, seqVars, buildVars>>

\* Lines 55-58: reset on a new minute, increment, store.
RlPut(t) ==
    /\ pc[t] = "rl_put"
    /\ LET wc == rl_roll(<<loc[t].win, loc[t].cnt>>, loc[t].now_min)
           cnt == wc[2] + 1
       IN  /\ cnt <= CounterCap
           /\ loc' = [loc EXCEPT ![t].win = wc[1], ![t].cnt = cnt]
           /\ rl_window' = rl_put(rl_window, tkey[t], <<wc[1], cnt>>)
    /\ pc' = [pc EXCEPT ![t] = "rl_ret"]
    /\ UNCHANGED <<tkey, result, admitted, VALID_KEYS, RATE_LIMIT_PER_MIN, now,
                   seqVars, buildVars>>

\* Lines 59 and 72-76: the verdict; 429, or the handler is entered.
RlReturn(t) ==
    /\ pc[t] = "rl_ret"
    /\ LET ok == loc[t].cnt <= RATE_LIMIT_PER_MIN
           slot == <<tkey[t], loc[t].now_min>>
       IN  /\ result' = [result EXCEPT ![t] = IF ok THEN 200 ELSE 429]
           /\ admitted' =
                 IF ok
                 THEN [x \in DOMAIN admitted \cup {slot} |->
                          IF x = slot
                          THEN (IF slot \in DOMAIN admitted THEN admitted[slot] ELSE 0) + 1
                          ELSE admitted[x]]
                 ELSE admitted
    /\ pc' = [pc EXCEPT ![t] = "done"]
    /\ UNCHANGED <<tkey, loc, gateVars, seqVars, buildVars>>

NextConc ==
    \/ Tick
    \/ \E t \in Threads : Arrive(t)
    \/ \E t \in Threads : RlEnter(t)
    \/ \E t \in Threads : RlGet(t)
    \/ \E t \in Threads : RlPut(t)
    \/ \E t \in Threads : RlReturn(t)

SpecConc == InitConc /\ [][NextConc]_vars

\* C2: however the threads interleave, at most RATE_LIMIT_PER_MIN calls of
\* rate_limit_ok for one credential are admitted within one epoch minute.
C2_NoOverAdmission ==
    RATE_LIMIT_PER_MIN > 0 =>
        \A slot \in DOMAIN admitted : admitted[slot] <= RATE_LIMIT_PER_MIN

====
